---- MODULE Spec2Model ----
(***************************************************************************)
(* Segmented fetch-and-reassembly engine of downloader-rs.                 *)
(*                                                                         *)
(* Three schedulers live in the repository and are modelled side by side:  *)
(*   "hls"    download/playlist/segment.rs   download_segments (waves)     *)
(*            download/playlist/playlist.rs  download_playlist             *)
(*   "legacy" download/playlist.rs           download_playlist             *)
(*   "range"  download/video/range.rs        SegmentedVideo                *)
(* Two further specifications exercise the pure planning code:             *)
(*   SpecPlan    SegmentedVideo::new         (byte-range planning)         *)
(*   SpecMaster  parse_playlist_master       (variant selection)           *)
(*   SpecMedia   parse_playlist_segments     (segment planning)            *)
(*   SpecPlaylist parse_playlist             (master, variant, segments)   *)
(* SpecVideo runs a range job on the plan SegmentedVideo::new produced.    *)
(* SpecPlanFair runs SegmentedVideo::new to its end.                       *)
(* SpecFair and SpecStuck add the scheduling under which every fetch      *)
(* returns, or under which the remote side may stay silent.               *)
(***************************************************************************)
EXTENDS Integers, Sequences, FiniteSets, TLC

\* ---- bounds -------------------------------------------------------------
MaxSeg == 3        \* largest number of tasks of one job
MaxPar == 2        \* largest max_parallel_downloads
MaxRet == 2        \* largest max_download_retries
MaxSize == 9       \* largest video.size (content length) planned
MaxBlock == 3      \* largest block_size planned
MaxVariants == 3   \* most variant lines of a master manifest
MaxBwLen == 2      \* most digits written after BANDWIDTH=
MaxDigit == 3      \* digits 0..MaxDigit are used in bandwidth fields
MaxLines == 4      \* most lines of a media manifest
MaxDurDigit == 2   \* digits 1..MaxDurDigit are used in durations
MaxFile == 2       \* file names 1..MaxFile end the URI lines

VARIABLES
    \* --- job configuration (fixed after Init)
    mode,                    \* which scheduler runs the job
    max_parallel_downloads,  \* Options.max_parallel_downloads
    max_download_retries,    \* Options.max_download_retries
    total_segments,          \* N: playlist.segments.len() / self.total_segments
    name,                    \* task -> scratch slot (Segment.name / "{id}.ts")
    preserved,               \* slots already on disk when the job started
    \* --- filesystem
    folder,                  \* scratch directory exists
    disk,                    \* slot -> content (0 = no file)
    output_exists,           \* output file exists
    output,                  \* content of the output file
    \* --- workers (one tokio task per dispatched segment)
    pc,                      \* task -> position of its worker
    downloaded,              \* task -> Segment.downloaded of the worker's copy
    permit,                  \* task -> worker holds a semaphore permit
    semaphore,               \* available permits
    \* --- shared progress state
    downloaded_segments,     \* the counter behind the mutex
    progress,                \* emitted observations (completed count, label)
    counted,                 \* task -> times it went through the bookkeeping
    fetches,                 \* task -> network fetches issued
    fetch_errors,            \* task -> fetches that returned an error
    io_errors,               \* task -> file create/write errors
    \* --- the job's own task
    phase,                   \* position of the job
    segments,                \* the `segments` vector (dispatch / retry set)
    tasks,                   \* join handles of the current wave, spawn order
    awaited,                 \* handles of `tasks` already awaited
    tries,                   \* waves finished
    failed_in_wave,          \* tasks whose attempt failed in the current wave
    download_result,         \* result of the fetch phase
    merged,                  \* slots already copied to the output
    result,                  \* result of the whole job
    \* --- the two progress mutexes: holder's task, 0 when free
    duration_lock, count_lock,
    \* --- range planning (SegmentedVideo::new)
    video_size, block_size, start, end, plan, plan_pc,
    \* --- master manifest (parse_playlist_master)
    lines, line_i, streams, selected_stream, master_pc,
    \* --- media manifest (parse_segments, parse_playlist_segments)
    media_lines, media_i, media_segments, total_duration, media_pc,
    \* --- manifest resolution (parse_playlist); a URL is represented by its
    \* directory, the sequence of path components before the last "/"
    playlist_url,            \* the URL parse_playlist is called with
    document,                \* what that URL serves: "master" or "media"
    variant,                 \* URI line of the variant the master selects
    prefix,                  \* the `prefix` string of parse_playlist
    stream_url,              \* stream.playlist_url
    playlist_pc              \* position of parse_playlist

cfgVars == <<mode, max_parallel_downloads, max_download_retries,
             total_segments, name, preserved>>
fsVars == <<folder, disk, output_exists, output>>
workerVars == <<pc, downloaded, permit, semaphore>>
progressVars == <<downloaded_segments, progress, counted>>
historyVars == <<fetches, fetch_errors, io_errors>>
mainVars == <<phase, segments, tasks, awaited, tries, failed_in_wave,
              download_result, merged, result>>
lockVars == <<duration_lock, count_lock>>
jobVars == <<cfgVars, fsVars, workerVars, progressVars, historyVars, mainVars,
             lockVars>>
planVars == <<video_size, block_size, start, end, plan, plan_pc>>
masterVars == <<lines, line_i, streams, selected_stream, master_pc>>
mediaVars == <<media_lines, media_i, media_segments, total_duration,
               media_pc>>
playlistVars == <<playlist_url, document, variant, prefix, stream_url,
                  playlist_pc>>
vars == <<jobVars, planVars, masterVars, mediaVars, playlistVars>>

\* ---- helpers ------------------------------------------------------------
Tasks == 1..total_segments

RECURSIVE Iota(_)
Iota(n) == IF n = 0 THEN <<>> ELSE Append(Iota(n - 1), n)

Range(s) == {s[k] : k \in 1..Len(s)}

RECURSIVE Insert(_, _)
Insert(s, x) ==
    IF s = <<>> THEN <<x>>
    ELSE IF x < Head(s) THEN <<x>> \o s
    ELSE <<Head(s)>> \o Insert(Tail(s), x)

RECURSIVE sort_by_id(_)
sort_by_id(s) == IF s = <<>> THEN <<>> ELSE Insert(sort_by_id(Tail(s)), Head(s))

\* Content of a slot file: 0 no file, i > 0 the bytes task i fetched,
\* -i a file task i created but did not finish writing, PrevData(n) what an
\* earlier run left in slot n.
PrevData(n) == 10 + n
Truncated(i) == 0 - i

\* Slot names a manifest can give N segments, up to renaming: the name is the
\* last path component of the URI, so two segments may share one.
SlotMaps(n) ==
    {f \in [1..n -> 1..n] :
        \A i \in 1..n : f[i] <= 1 + (IF i = 1 THEN 0
                                     ELSE CHOOSE m \in 1..n :
                                            /\ \E j \in 1..(i - 1) : f[j] = m
                                            /\ \A j \in 1..(i - 1) : f[j] <= m)}

\* ---- the other specifications' variables at rest --------------------------
PlanIdle ==
    /\ video_size = 0 /\ block_size = 0 /\ start = 0 /\ end = 0
    /\ plan = <<>> /\ plan_pc = "idle"

MasterIdle ==
    /\ lines = <<>> /\ line_i = 0 /\ streams = <<>>
    /\ selected_stream = 0 /\ master_pc = "idle"

MediaIdle ==
    /\ media_lines = <<>> /\ media_i = 0 /\ media_segments = <<>>
    /\ total_duration = 0 /\ media_pc = "idle"

PlaylistIdle ==
    /\ playlist_url = <<>> /\ document = "none"
    /\ variant = [abs |-> FALSE, dir |-> <<>>]
    /\ prefix = <<>> /\ stream_url = <<>> /\ playlist_pc = "idle"

JobIdle ==
    /\ mode = "none"
    /\ max_parallel_downloads = 0 /\ max_download_retries = 0
    /\ total_segments = 0 /\ name = <<>> /\ preserved = {}
    /\ folder = FALSE /\ disk = <<>> /\ output_exists = FALSE /\ output = <<>>
    /\ pc = <<>> /\ downloaded = <<>> /\ permit = <<>> /\ semaphore = 0
    /\ downloaded_segments = 0 /\ progress = <<>> /\ counted = <<>>
    /\ fetches = <<>> /\ fetch_errors = <<>> /\ io_errors = <<>>
    /\ phase = "idle" /\ segments = <<>> /\ tasks = <<>> /\ awaited = 0
    /\ tries = 0 /\ failed_in_wave = {} /\ download_result = "none"
    /\ merged = 0 /\ result = "none"
    /\ duration_lock = 0 /\ count_lock = 0

\* ---- Init of a job ------------------------------------------------------
\* A job starts after planning: N tasks, none attempted, the scratch
\* directory either absent or preserved from an interrupted earlier run.
JobInit ==
    /\ mode \in {"hls", "legacy", "range"}
    /\ max_parallel_downloads \in 0..MaxPar
    /\ max_download_retries \in (IF mode = "hls" THEN 0..MaxRet ELSE {0})
    /\ total_segments \in (IF mode = "range" THEN 1..MaxSeg ELSE 0..MaxSeg)
    /\ name \in (IF mode = "range" THEN {[i \in 1..total_segments |-> i]}
                 ELSE SlotMaps(total_segments))
    /\ folder \in BOOLEAN
    /\ preserved \in (IF folder THEN SUBSET {name[i] : i \in 1..total_segments}
                      ELSE {{}})
    /\ disk = [n \in 1..total_segments |->
                 IF n \in preserved THEN PrevData(n) ELSE 0]
    /\ output_exists = FALSE /\ output = <<>>
    /\ pc = [i \in 1..total_segments |-> "none"]
    /\ downloaded = [i \in 1..total_segments |-> FALSE]
    /\ permit = [i \in 1..total_segments |-> FALSE]
    /\ semaphore = max_parallel_downloads
    /\ downloaded_segments = 0 /\ progress = <<>>
    /\ counted = [i \in 1..total_segments |-> 0]
    /\ fetches = [i \in 1..total_segments |-> 0]
    /\ fetch_errors = [i \in 1..total_segments |-> 0]
    /\ io_errors = [i \in 1..total_segments |-> 0]
    /\ phase = "mkdir"
    /\ segments = Iota(total_segments)
    /\ tasks = <<>> /\ awaited = 0 /\ tries = 0 /\ failed_in_wave = {}
    /\ download_result = "none" /\ merged = 0 /\ result = "none"
    /\ duration_lock = 0 /\ count_lock = 0

Init == JobInit /\ PlanIdle /\ MasterIdle /\ MediaIdle /\ PlaylistIdle

\* ---- workers ------------------------------------------------------------
\* semaphore.acquire().await completes only while a permit is available.
acquire_unbounded(available) == TRUE
acquire(available) == available > 0

\* Dropping a permit returns it to the semaphore.
release_none(available) == available
release(available) == available + 1

\* std::path::Path::exists on the task's scratch slot.
exists_never(slot) == FALSE
exists(slot) == disk[slot] # 0

\* The worker runs up to its first network await: it takes a permit and
\* enters Segment::download / VideoSegment::download, which either returns
\* at once on an existing slot or issues the fetch.
StartWorker(i) ==
    /\ pc[i] = "spawned"
    /\ LET skip == downloaded[i] \/ exists(name[i])
           fetch ==
               /\ acquire(semaphore)
               /\ semaphore' = semaphore - 1
               /\ permit' = [permit EXCEPT ![i] = TRUE]
               /\ pc' = [pc EXCEPT ![i] = "fetching"]
               /\ fetches' = [fetches EXCEPT ![i] = @ + 1]
               /\ UNCHANGED downloaded
       IN  CASE mode = "hls" ->
                  \* permit first (segment.rs:166), then download(); on the
                  \* skip path the permit is dropped before finished()
                  IF skip
                  THEN /\ acquire(semaphore)
                       /\ downloaded' = [downloaded EXCEPT ![i] = TRUE]
                       /\ pc' = [pc EXCEPT ![i] = "finish"]
                       /\ UNCHANGED <<semaphore, permit, fetches>>
                  ELSE fetch
             [] mode = "legacy" ->
                  \* the skip path returns before the permit is requested
                  \* (playlist.rs:63-75)
                  IF skip
                  THEN /\ downloaded' = [downloaded EXCEPT ![i] = TRUE]
                       /\ pc' = [pc EXCEPT ![i] = "finish"]
                       /\ UNCHANGED <<semaphore, permit, fetches>>
                  ELSE fetch
             [] mode = "range" ->
                  \* _permit lives until the worker returns (range.rs:135)
                  IF exists(name[i])
                  THEN /\ acquire(semaphore)
                       /\ semaphore' = semaphore - 1
                       /\ permit' = [permit EXCEPT ![i] = TRUE]
                       /\ pc' = [pc EXCEPT ![i] = "finish"]
                       /\ UNCHANGED <<downloaded, fetches>>
                  ELSE fetch
    /\ UNCHANGED <<cfgVars, fsVars, progressVars, fetch_errors, io_errors,
                   mainVars, lockVars, planVars, masterVars,
                   mediaVars, playlistVars>>

\* The fetch returns and the worker writes the slot; every error path leaves
\* the function, which drops the permit.
FetchReturn(i) ==
    /\ pc[i] = "fetching"
    /\ \E outcome \in {"ok", "fetch_err", "create_err", "write_err"} :
         /\ disk' = CASE outcome = "ok" -> [disk EXCEPT ![name[i]] = i]
                      [] outcome = "write_err" ->
                             [disk EXCEPT ![name[i]] = Truncated(i)]
                      [] OTHER -> disk
         /\ fetch_errors' = [fetch_errors EXCEPT ![i] =
                               IF outcome = "fetch_err" THEN @ + 1 ELSE @]
         /\ io_errors' = [io_errors EXCEPT ![i] =
                            IF outcome \in {"create_err", "write_err"}
                            THEN @ + 1 ELSE @]
         /\ failed_in_wave' = IF outcome = "ok" THEN failed_in_wave
                              ELSE failed_in_wave \cup {i}
         /\ IF outcome = "ok"
            THEN /\ pc' = [pc EXCEPT ![i] = "finish"]
                 /\ downloaded' = [downloaded EXCEPT ![i] = (mode # "range")]
                 /\ IF mode = "hls"
                    THEN \* std::mem::drop(permit) precedes finished()
                         /\ semaphore' = release(semaphore)
                         /\ permit' = [permit EXCEPT ![i] = FALSE]
                    ELSE UNCHANGED <<semaphore, permit>>
            ELSE /\ pc' = [pc EXCEPT ![i] =
                             IF mode = "range" /\ outcome = "write_err"
                             THEN "panic"      \* io::copy(..).unwrap()
                             ELSE "err"]
                 /\ semaphore' = release(semaphore)
                 /\ permit' = [permit EXCEPT ![i] = FALSE]
                 /\ UNCHANGED downloaded
    /\ UNCHANGED <<cfgVars, folder, output_exists, output, progressVars,
                   fetches, phase, segments, tasks, awaited, tries,
                   download_result, merged, result, lockVars, planVars, masterVars,
                   mediaVars, playlistVars>>

\* Mutex::lock().await completes only while no task holds the mutex.
lock_unguarded(holder) == TRUE
lock(holder) == holder = 0

\* Segment::finished, first statement: args.downloaded_duration.lock().await.
\* The HLS worker calls finished only `if segment.downloaded`.
LockDuration(i) ==
    /\ pc[i] = "finish"
    /\ mode \in {"hls", "legacy"}
    /\ downloaded[i]
    /\ lock(duration_lock)
    /\ duration_lock' = i
    /\ pc' = [pc EXCEPT ![i] = "lock_count"]
    /\ UNCHANGED <<cfgVars, fsVars, downloaded, permit, semaphore,
                   progressVars, historyVars, mainVars, count_lock,
                   planVars, masterVars, mediaVars, playlistVars>>

\* downloaded_segments.lock().await and the increment made through the guard
\* (segments_downloaded.lock().await; *segments_downloaded += 1 in range
\* mode, which has this one mutex only).
LockCount(i) ==
    /\ \/ pc[i] = "lock_count"
       \/ pc[i] = "finish" /\ mode = "range"
    /\ lock(count_lock)
    /\ count_lock' = i
    /\ downloaded_segments' = downloaded_segments + 1
    /\ counted' = [counted EXCEPT ![i] = @ + 1]
    /\ pc' = [pc EXCEPT ![i] = "locked"]
    /\ UNCHANGED <<cfgVars, fsVars, downloaded, permit, semaphore, progress,
                   historyVars, mainVars, duration_lock,
                   planVars, masterVars, mediaVars, playlistVars>>

\* drop(guard): the mutex is free again once its holder drops the guard.
unlock_kept(holder, i) == holder
unlock(holder, i) == IF holder = i THEN 0 ELSE holder

\* The rest of the critical section: the observation is printed from the
\* value read through the guard, the guards are dropped and the worker
\* returns Ok, which drops a permit it still holds.
Finish(i) ==
    /\ \/ /\ pc[i] = "locked"
          /\ progress' = Append(progress,
                 [completed |-> downloaded_segments, label |-> i])
          /\ count_lock' = unlock(count_lock, i)
          /\ duration_lock' = unlock(duration_lock, i)
       \/ /\ pc[i] = "finish"
          /\ mode = "hls"
          /\ ~downloaded[i]
          /\ UNCHANGED <<progress, lockVars>>
    /\ pc' = [pc EXCEPT ![i] = "ok"]
    /\ IF permit[i]
       THEN /\ semaphore' = release(semaphore)
            /\ permit' = [permit EXCEPT ![i] = FALSE]
       ELSE UNCHANGED <<semaphore, permit>>
    /\ UNCHANGED <<cfgVars, fsVars, downloaded, downloaded_segments, counted,
                   historyVars, mainVars, planVars, masterVars, mediaVars,
                   playlistVars>>

\* ---- the job ------------------------------------------------------------
\* while segments.len() > 0 && tries < options.max_download_retries
wave_condition_inclusive ==
    Len(segments) > 0 /\ tries <= max_download_retries
wave_condition == Len(segments) > 0 /\ tries < max_download_retries

\* The order in which the slots are copied to the output: playlist.segments
\* in HLS mode, the id-sorted copy of self.segments in range mode.
completion_order == [k \in 1..Len(progress) |-> progress[k].label]
combine_order ==
    IF mode = "range" THEN sort_by_id(segments) ELSE Iota(total_segments)

\* create_dir of the scratch folder unless it exists.
MakeDir ==
    /\ phase = "mkdir"
    /\ \E created \in BOOLEAN :
         IF folder \/ created
         THEN /\ folder' = TRUE
              /\ phase' = (IF mode = "hls" THEN "loop" ELSE "spawn")
              /\ UNCHANGED result
         ELSE /\ phase' = "done"
              /\ result' = "err_mkdir"
              /\ UNCHANGED folder
    /\ UNCHANGED <<cfgVars, disk, output_exists, output, workerVars,
                   progressVars, historyVars, segments, tasks, awaited, tries,
                   failed_in_wave, download_result, merged,
                   lockVars, planVars, masterVars,
                   mediaVars, playlistVars>>

\* One tokio::spawn per element of the dispatch vector.
Spawn ==
    /\ \/ phase = "spawn"
       \/ phase = "loop" /\ wave_condition
    /\ tasks' = segments
    /\ pc' = [i \in Tasks |-> IF i \in Range(segments) THEN "spawned" ELSE pc[i]]
    /\ segments' = (IF mode = "legacy" THEN segments ELSE <<>>)
    /\ awaited' = 0
    /\ failed_in_wave' = {}
    /\ phase' = "await"
    /\ UNCHANGED <<cfgVars, fsVars, downloaded, permit, semaphore,
                   progressVars, historyVars, tries, download_result, merged,
                   result, lockVars, planVars, masterVars,
                   mediaVars, playlistVars>>

\* The match arm `Ok(Ok(segment)) if !segment.downloaded` of the wave loop.
needs_retry_any(t) == pc[t] = "ok"
needs_retry(t) == pc[t] = "ok" /\ ~downloaded[t]

\* task.await completes when the worker has returned or panicked.
joined_any(t) == TRUE
joined(t) == pc[t] \in {"ok", "err", "panic"}

\* for task in tasks { match task.await { ... } }, one handle at a time.
Await ==
    /\ phase = "await"
    /\ awaited < Len(tasks)
    /\ LET t == tasks[awaited + 1] IN
         /\ joined(t)
         /\ CASE mode = "hls" ->
                   \* Ok(Ok(segment)) if !segment.downloaded => push
                   /\ segments' = IF needs_retry(t)
                                  THEN Append(segments, t) ELSE segments
                   /\ awaited' = awaited + 1
                   /\ UNCHANGED <<phase, download_result, result>>
              [] mode = "legacy" ->
                   /\ awaited' = awaited + 1
                   /\ UNCHANGED <<segments, phase, download_result, result>>
              [] mode = "range" ->
                   IF pc[t] = "ok"
                   THEN /\ segments' = Append(segments, t)
                        /\ awaited' = awaited + 1
                        /\ UNCHANGED <<phase, download_result, result>>
                   ELSE \* first failed handle: return Err, later handles
                        \* are never awaited
                        /\ download_result' =
                               (IF pc[t] = "err" THEN "err_task" ELSE "err_join")
                        /\ result' = download_result'
                        /\ phase' = "done"
                        /\ UNCHANGED <<segments, awaited>>
    /\ UNCHANGED <<cfgVars, fsVars, workerVars, progressVars, historyVars,
                   tasks, tries, failed_in_wave, merged, lockVars, planVars, masterVars,
                   mediaVars, playlistVars>>

\* Every handle of the wave has been awaited.
WaveEnd ==
    /\ phase = "await"
    /\ awaited = Len(tasks)
    /\ CASE mode = "hls" ->
              /\ tries' = tries + 1
              /\ phase' = "loop"
              /\ UNCHANGED <<segments, download_result, result>>
         [] mode = "legacy" ->
              \* if *downloaded_segments != playlist.segments.len()
              /\ IF downloaded_segments # total_segments
                 THEN /\ download_result' = "err_not_all"
                      /\ result' = "err_not_all"
                      /\ phase' = "done"
                 ELSE /\ download_result' = "ok"
                      /\ phase' = "fetched"
                      /\ UNCHANGED result
              /\ UNCHANGED <<segments, tries>>
         [] mode = "range" ->
              /\ segments' = sort_by_id(segments)
              /\ download_result' = "ok"
              /\ phase' = "fetched"
              /\ UNCHANGED <<tries, result>>
    /\ UNCHANGED <<cfgVars, fsVars, workerVars, progressVars, historyVars,
                   tasks, awaited, failed_in_wave, merged, lockVars, planVars, masterVars,
                   mediaVars, playlistVars>>

\* The while loop of download_segments ends; the function returns Ok(()).
LoopExit ==
    /\ phase = "loop"
    /\ ~wave_condition
    /\ download_result' = "ok"
    /\ phase' = "fetched"
    /\ UNCHANGED <<cfgVars, fsVars, workerVars, progressVars, historyVars,
                   segments, tasks, awaited, tries, failed_in_wave, merged,
                   result, lockVars, planVars, masterVars,
                   mediaVars, playlistVars>>

\* File::create(output); in range mode combine() first compares lengths.
CreateOutput ==
    /\ phase = "fetched"
    /\ IF mode = "range" /\ Len(segments) # total_segments
       THEN /\ result' = "err_not_all"
            /\ phase' = "done"
            /\ UNCHANGED <<output_exists, output>>
       ELSE \E created \in BOOLEAN :
              IF created
              THEN /\ output_exists' = TRUE
                   /\ output' = <<>>
                   /\ phase' = "merge"
                   /\ UNCHANGED result
              ELSE /\ result' = "err_create"
                   /\ phase' = "done"
                   /\ UNCHANGED <<output_exists, output>>
    /\ merged' = 0
    /\ UNCHANGED <<cfgVars, folder, disk, workerVars, progressVars,
                   historyVars, segments, tasks, awaited, tries,
                   failed_in_wave, download_result, lockVars, planVars, masterVars,
                   mediaVars, playlistVars>>

\* File::open of the next slot and io::copy to the output.
MergeNext ==
    /\ phase = "merge"
    /\ merged < Len(combine_order)
    /\ LET slot == name[combine_order[merged + 1]] IN
         IF disk[slot] = 0
         THEN /\ result' = "err_open"
              /\ phase' = "done"
              /\ UNCHANGED <<output, merged>>
         ELSE \E copied \in BOOLEAN :
                IF copied
                THEN /\ output' = Append(output, disk[slot])
                     /\ merged' = merged + 1
                     /\ UNCHANGED <<phase, result>>
                ELSE /\ result' = "err_copy"
                     /\ phase' = "done"
                     /\ UNCHANGED <<output, merged>>
    /\ UNCHANGED <<cfgVars, folder, disk, output_exists, workerVars,
                   progressVars, historyVars, segments, tasks, awaited, tries,
                   failed_in_wave, download_result, lockVars, planVars, masterVars,
                   mediaVars, playlistVars>>

\* Every slot of combine_order has been copied to the output.
reassembled_any == TRUE
reassembled == merged = Len(combine_order)

\* All slots copied; only the legacy download_playlist removes the folder.
\* A remove_dir_all that fails may have deleted some of the files already.
MergeDone ==
    /\ phase = "merge"
    /\ reassembled
    /\ phase' = "done"
    /\ IF mode = "legacy"
       THEN \E removed \in BOOLEAN :
              IF removed
              THEN /\ folder' = FALSE
                   /\ disk' = [n \in DOMAIN disk |-> 0]
                   /\ result' = "ok"
              ELSE /\ result' = "err_rmdir"
                   /\ \E gone \in SUBSET (DOMAIN disk) :
                        disk' = [n \in DOMAIN disk |->
                                   IF n \in gone THEN 0 ELSE disk[n]]
                   /\ UNCHANGED folder
       ELSE /\ result' = "ok"
            /\ UNCHANGED <<folder, disk>>
    /\ UNCHANGED <<cfgVars, output_exists, output, workerVars, progressVars,
                   historyVars, segments, tasks, awaited, tries,
                   failed_in_wave, download_result, merged,
                   lockVars, planVars, masterVars,
                   mediaVars, playlistVars>>

Next ==
    \/ MakeDir
    \/ Spawn
    \/ \E i \in Tasks : StartWorker(i)
    \/ \E i \in Tasks : FetchReturn(i)
    \/ \E i \in Tasks : LockDuration(i)
    \/ \E i \in Tasks : LockCount(i)
    \/ \E i \in Tasks : Finish(i)
    \/ Await
    \/ WaveEnd
    \/ LoopExit
    \/ CreateOutput
    \/ MergeNext
    \/ MergeDone

Spec == Init /\ [][Next]_vars

\* ---- scheduling ---------------------------------------------------------
\* The job's own future: it runs whenever it can.
Main ==
    \/ MakeDir \/ Spawn \/ Await \/ WaveEnd \/ LoopExit
    \/ CreateOutput \/ MergeNext \/ MergeDone

\* The steps of worker i that need nothing from the network: tokio polls a
\* spawned task whenever it is ready.
LocalStep(i) ==
    i \in Tasks /\ (StartWorker(i) \/ LockDuration(i) \/ LockCount(i) \/ Finish(i))

\* The remote side answers the fetch of worker i, or the transport fails.
RemoteAnswers(i) == i \in Tasks /\ FetchReturn(i)

\* Every issued fetch returns.  reqwest::get and the Client built by
\* DownloadClient::new set no timeout, so this is the remote side's doing.
SpecFair ==
    /\ Spec
    /\ WF_vars(Main)
    /\ \A i \in 1..MaxSeg : WF_vars(LocalStep(i)) /\ WF_vars(RemoteAnswers(i))

\* The remote side may stay silent for ever.
SpecStuck ==
    /\ Spec
    /\ WF_vars(Main)
    /\ \A i \in 1..MaxSeg : WF_vars(LocalStep(i))

\* ---- range planning: SegmentedVideo::new ----------------------------------
\* VideoSegment::new(id, video, start, end); the request header is
\* "bytes={start}-{end}", a closed interval.
VideoSegment(id, s, e) == [id |-> id, start |-> s, end |-> e]

\* Bytes the closed interval of a segment asks for.
RangeBytes(seg) == seg.end - seg.start + 1

PlanInit ==
    /\ video_size \in 0..MaxSize
    /\ block_size \in 0..MaxBlock
    /\ start = 0
    /\ end = block_size
    /\ plan = <<>>
    /\ plan_pc = "loop"

\* segments.len() as u64: the id given to the next segment pushed.
next_id_one(p) == Len(p) + 1
next_id(p) == Len(p)

\* start = end + 1: the next block starts one past the end of the last.
next_start_same(e) == e
next_start(e) == e + 1

\* while end < video.size { push; start = end + 1; end = start + block_size }
PlanLoop ==
    /\ plan_pc = "loop"
    /\ end < video_size
    /\ plan' = Append(plan, VideoSegment(next_id(plan), start, end))
    /\ start' = next_start(end)
    /\ end' = start' + block_size
    /\ UNCHANGED <<video_size, block_size, plan_pc, jobVars, masterVars, mediaVars, playlistVars>>

\* segments.push(VideoSegment::new(segments.len(), video, start, video.size))
PlanLast ==
    /\ plan_pc = "loop"
    /\ ~(end < video_size)
    /\ plan' = Append(plan, VideoSegment(next_id(plan), start, video_size))
    /\ plan_pc' = "done"
    /\ UNCHANGED <<video_size, block_size, start, end, jobVars, masterVars, mediaVars, playlistVars>>

InitPlan == PlanInit /\ JobIdle /\ MasterIdle /\ MediaIdle /\ PlaylistIdle
NextPlan == PlanLoop \/ PlanLast
SpecPlan == InitPlan /\ [][NextPlan]_vars

\* SegmentedVideo::new is straight-line code run to its end by the caller.
SpecPlanFair == SpecPlan /\ WF_vars(NextPlan)

\* ---- range job: SegmentedVideo::new, then download and combine ------------
\* download_video: the planned SegmentedVideo is handed to download(); task
\* i of the job carries plan[i].
StartRangeJob ==
    /\ plan_pc = "done"
    /\ mode = "none"
    /\ Len(plan) <= MaxSeg
    /\ mode' = "range"
    /\ max_parallel_downloads' \in 0..MaxPar
    /\ max_download_retries' = 0
    /\ total_segments' = Len(plan)
    /\ name' = [i \in 1..Len(plan) |-> i]
    /\ folder' \in BOOLEAN
    /\ preserved' \in (IF folder' THEN SUBSET (1..Len(plan)) ELSE {{}})
    /\ disk' = [n \in 1..Len(plan) |->
                  IF n \in preserved' THEN PrevData(n) ELSE 0]
    /\ pc' = [i \in 1..Len(plan) |-> "none"]
    /\ downloaded' = [i \in 1..Len(plan) |-> FALSE]
    /\ permit' = [i \in 1..Len(plan) |-> FALSE]
    /\ semaphore' = max_parallel_downloads'
    /\ counted' = [i \in 1..Len(plan) |-> 0]
    /\ fetches' = [i \in 1..Len(plan) |-> 0]
    /\ fetch_errors' = [i \in 1..Len(plan) |-> 0]
    /\ io_errors' = [i \in 1..Len(plan) |-> 0]
    /\ phase' = "mkdir"
    /\ segments' = Iota(Len(plan))
    /\ UNCHANGED <<output_exists, output, downloaded_segments, progress,
                   tasks, awaited, tries, failed_in_wave, download_result,
                   merged, result, lockVars, planVars, masterVars,
                   mediaVars, playlistVars>>

NextVideo ==
    \/ PlanLoop
    \/ PlanLast
    \/ StartRangeJob
    \/ MakeDir
    \/ Spawn
    \/ \E i \in Tasks : StartWorker(i)
    \/ \E i \in Tasks : FetchReturn(i)
    \/ \E i \in Tasks : LockCount(i)
    \/ \E i \in Tasks : Finish(i)
    \/ Await
    \/ WaveEnd
    \/ CreateOutput
    \/ MergeNext
    \/ MergeDone

SpecVideo == InitPlan /\ [][NextVideo]_vars

\* ---- master manifest: parse_playlist_master -------------------------------
\* A variant line is represented by the digits written between "BANDWIDTH="
\* and the next comma.
BwFields ==
    {f \in UNION {[1..n -> 0..MaxDigit] : n \in 1..MaxBwLen} : f[1] # 0}

RECURSIVE Decimal(_)
Decimal(digits) ==
    IF digits = <<>> THEN 0
    ELSE 10 * Decimal(SubSeq(digits, 1, Len(digits) - 1)) + digits[Len(digits)]

\* line[idx_start + 1 + search.len()..idx_end]: the slice starts one
\* character after the first character that follows "BANDWIDTH=".
bandwidth_slice(field) == Tail(field)

\* Iterator::max_by_key: of several maximal elements the last is returned.
max_by_key(ss) ==
    CHOOSE k \in 1..Len(ss) :
        /\ \A j \in 1..Len(ss) : ss[j].bandwidth <= ss[k].bandwidth
        /\ \A j \in (k + 1)..Len(ss) : ss[j].bandwidth < ss[k].bandwidth

MasterInit ==
    /\ lines \in UNION {[1..n -> BwFields] : n \in 0..MaxVariants}
    /\ line_i = 0
    /\ streams = <<>>
    /\ selected_stream = 0
    /\ master_pc = "scan"

\* One "#EXT-X-STREAM-INF" line of the for_each: slice, parse::<i64>().unwrap()
ParseLine ==
    /\ master_pc = "scan"
    /\ line_i < Len(lines)
    /\ LET text == bandwidth_slice(lines[line_i + 1]) IN
         IF text = <<>>
         THEN \* "".parse::<i64>() is an Err, unwrap panics
              /\ master_pc' = "panic"
              /\ UNCHANGED <<line_i, streams>>
         ELSE /\ streams' = Append(streams, [line |-> line_i + 1,
                                             bandwidth |-> Decimal(text)])
              /\ line_i' = line_i + 1
              /\ UNCHANGED master_pc
    /\ UNCHANGED <<lines, selected_stream, jobVars, planVars, mediaVars, playlistVars>>

\* streams.into_iter().max_by_key(|stream| stream.bandwidth).unwrap()
Select ==
    /\ master_pc = "scan"
    /\ line_i = Len(lines)
    /\ IF streams = <<>>
       THEN /\ master_pc' = "panic"
            /\ UNCHANGED selected_stream
       ELSE /\ selected_stream' = streams[max_by_key(streams)].line
            /\ master_pc' = "done"
    /\ UNCHANGED <<lines, line_i, streams, jobVars, planVars, mediaVars, playlistVars>>

InitMaster == MasterInit /\ JobIdle /\ PlanIdle /\ MediaIdle /\ PlaylistIdle
NextMaster == ParseLine \/ Select
SpecMaster == InitMaster /\ [][NextMaster]_vars

\* ---- media manifest: parse_segments / parse_playlist_segments -----------
\* A line is a segment marker ("#EXTINF" followed by text), a URI line or
\* any other line.  The text of a marker is a string over ':' , ',' and
\* decimal digits; a URI is absolute or relative and ends in a file name.
Colon == 0 - 1
Comma == 0 - 2

\* The duration fields written: none, one digit, or two digits.
DurFields ==
    {<<>>} \cup {<<d>> : d \in 1..MaxDurDigit} \cup {<<1, MaxDurDigit>>}

MarkerTexts ==
    {<<Colon>> \o f \o <<Comma>> : f \in DurFields}
        \cup {<<>>, <<Colon>>, <<Comma, Colon>>}

MarkerLine(t) == [kind |-> "extinf", text |-> t, abs |-> FALSE, file |-> 0]
UriLine(a, f) == [kind |-> "uri", text |-> <<>>, abs |-> a, file |-> f]
TagLine == [kind |-> "tag", text |-> <<>>, abs |-> FALSE, file |-> 0]

MediaLineSet ==
    {MarkerLine(t) : t \in MarkerTexts}
        \cup {UriLine(a, f) : a \in BOOLEAN, f \in 1..MaxFile}
        \cup {TagLine}

\* str::find: position of the first occurrence (1-based), 0 for None.
find(text, ch) ==
    IF \E k \in 1..Len(text) : text[k] = ch
    THEN CHOOSE k \in 1..Len(text) :
             text[k] = ch /\ \A j \in 1..(k - 1) : text[j] # ch
    ELSE 0

\* line[idx_start + 1..idx_end]: the characters strictly between the first
\* ':' and the first ','.
duration_slice(text) ==
    SubSeq(text, find(text, Colon) + 1, find(text, Comma) - 1)

\* The unwraps of the marker branch, the slice bounds and parse::<f64>().
duration_panics(text) ==
    \/ find(text, Colon) = 0
    \/ find(text, Comma) = 0
    \/ find(text, Colon) > find(text, Comma)
    \/ duration_slice(text) = <<>>
    \/ \E k \in 1..Len(duration_slice(text)) : duration_slice(text)[k] < 0

\* uri = lines[i + 1]
following_same(i) == i
following(i) == i + 1

\* Url::parse(uri), else Url::parse(prefix + uri).  A line that is no URI
\* has no scheme and resolves against the prefix as a fragment, leaving the
\* path of the prefix, whose last component is empty.
parse_url(line) ==
    IF line.kind = "uri"
    THEN [base |-> IF line.abs THEN "own" ELSE "prefix", file |-> line.file]
    ELSE [base |-> "prefix", file |-> 0]

\* uri.path().rsplit_once("/"): the last path component.
path_name(uri) == uri.file

RECURSIVE sum_duration(_)
sum_duration(segs) ==
    IF segs = <<>> THEN 0
    ELSE segs[1].duration + sum_duration(Tail(segs))

MediaInit ==
    /\ media_lines \in UNION {[1..n -> MediaLineSet] : n \in 0..MaxLines}
    /\ media_i = 0
    /\ media_segments = <<>>
    /\ total_duration = 0
    /\ media_pc = "scan"

\* One iteration of lines.iter().enumerate().for_each.
ParseMediaLine ==
    /\ media_pc = "scan"
    /\ media_i < Len(media_lines)
    /\ LET i == media_i + 1
           line == media_lines[i]
       IN  IF line.kind # "extinf"
           THEN /\ media_i' = i
                /\ UNCHANGED <<media_segments, media_pc>>
           ELSE IF \/ duration_panics(line.text)
                   \/ following(i) > Len(media_lines)
                THEN /\ media_pc' = "panic"
                     /\ UNCHANGED <<media_i, media_segments>>
                ELSE LET uri == parse_url(media_lines[following(i)]) IN
                     /\ media_segments' =
                           Append(media_segments,
                                  [name |-> path_name(uri),
                                   uri |-> uri,
                                   duration |->
                                       Decimal(duration_slice(line.text)),
                                   downloaded |-> FALSE])
                     /\ media_i' = i
                     /\ UNCHANGED media_pc
    /\ UNCHANGED <<media_lines, total_duration, jobVars, planVars, masterVars,
                   playlistVars>>

\* Ok(Playlist { total_duration: sum of the durations, segments })
MediaDone ==
    /\ media_pc = "scan"
    /\ media_i = Len(media_lines)
    /\ total_duration' = sum_duration(media_segments)
    /\ media_pc' = "done"
    /\ UNCHANGED <<media_lines, media_i, media_segments, jobVars, planVars,
                   masterVars, playlistVars>>

InitMedia == MediaInit /\ JobIdle /\ PlanIdle /\ MasterIdle /\ PlaylistIdle
NextMedia == ParseMediaLine \/ MediaDone
SpecMedia == InitMedia /\ [][NextMedia]_vars

\* ---- manifest resolution: parse_playlist ---------------------------------
\* Directories the fetched URL can have, and the URI lines a master can
\* carry for its selected variant: relative (a path below the master's
\* directory, possibly empty) or absolute (a directory of its own).
PlaylistDirs == {<<1>>, <<1, 2>>}
VariantUris ==
    {[abs |-> FALSE, dir |-> d] : d \in {<<>>, <<2>>}}
        \cup {[abs |-> TRUE, dir |-> d] : d \in PlaylistDirs \cup {<<2>>}}

\* Media manifests served in this specification: markers with a duration
\* and URI lines.
PlaylistMediaSet ==
    {MarkerLine(<<Colon, 1, Comma>>)}
        \cup {UriLine(a, f) : a \in BOOLEAN, f \in 1..MaxFile}

\* Url::parse(uri), else Url::parse(prefix + uri).
resolve(uri, pre) == IF uri.abs THEN uri.dir ELSE pre \o uri.dir

PlaylistInit ==
    /\ playlist_url \in PlaylistDirs
    /\ document \in {"master", "media"}
    /\ variant \in VariantUris
    /\ document = "media" => variant = [abs |-> FALSE, dir |-> <<>>]
    /\ prefix = <<>>
    /\ stream_url = <<>>
    /\ playlist_pc = "fetch"
    /\ media_lines \in UNION {[1..n -> PlaylistMediaSet] : n \in 0..MaxLines}
    /\ media_i = 0
    /\ media_segments = <<>>
    /\ total_duration = 0
    /\ media_pc = "wait"

\* download(playlist_url); prefix = playlist_url up to its last "/";
\* playlist.find("#EXT-X-STREAM-INF"): a media manifest goes straight to
\* parse_playlist_segments(playlist, prefix).
FetchPlaylist ==
    /\ playlist_pc = "fetch"
    /\ \E ok \in BOOLEAN :
         IF ~ok
         THEN /\ playlist_pc' = "err"
              /\ UNCHANGED <<prefix, media_pc>>
         ELSE /\ prefix' = playlist_url
              /\ IF document = "master"
                 THEN playlist_pc' = "master" /\ UNCHANGED media_pc
                 ELSE playlist_pc' = "segments" /\ media_pc' = "scan"
    /\ UNCHANGED <<playlist_url, document, variant, stream_url, media_lines,
                   media_i, media_segments, total_duration, jobVars, planVars,
                   masterVars>>

\* parse_playlist_master(playlist, prefix) resolves the selected variant;
\* download(&stream.playlist_url); then
\* parse_playlist_segments(playlist, prefix) with the same prefix.
FetchVariant ==
    /\ playlist_pc = "master"
    /\ stream_url' = resolve(variant, prefix)
    /\ \E ok \in BOOLEAN :
         IF ok
         THEN playlist_pc' = "segments" /\ media_pc' = "scan"
         ELSE playlist_pc' = "err" /\ UNCHANGED media_pc
    /\ UNCHANGED <<playlist_url, document, variant, prefix, media_lines,
                   media_i, media_segments, total_duration, jobVars, planVars,
                   masterVars>>

InitPlaylist == PlaylistInit /\ JobIdle /\ PlanIdle /\ MasterIdle
NextPlaylist == FetchPlaylist \/ FetchVariant \/ ParseMediaLine \/ MediaDone
SpecPlaylist == InitPlaylist /\ [][NextPlaylist]_vars

\* ---- properties -----------------------------------------------------------
\* A task is Done when its worker returned Ok after Segment::download /
\* VideoSegment::download succeeded or skipped.
Done(i) == pc[i] = "ok"

FetchPhaseReturned == download_result # "none"

InFlight == Cardinality({i \in Tasks : pc[i] = "fetching"})

Min(a, b) == IF a < b THEN a ELSE b

\* The history so far is one a fetch stub produces that fails each task's
\* first k fetches and lets every later one succeed, with no file error.
StubHistory(k) ==
    \A i \in Tasks :
        /\ pc[i] # "fetching"
        /\ io_errors[i] = 0
        /\ fetch_errors[i] = Min(fetches[i], k)

\* None of the error values the fetch phase can return (the io::Error "Not
\* all segments were downloaded", a task's boxed error, a JoinError) has a
\* field for the number of unfinished tasks.
ErrorCarriesCount(r) == FALSE

\* C1: with a stub failing every task exactly k times, max_download_retries
\* = k makes download_segments succeed with every segment downloaded, and
\* max_download_retries = k-1 makes it end with an incomplete-download
\* error for all N tasks (k >= 1, so that k-1 is a retry setting).
C1_RetryCeiling ==
    \A k \in 1..(MaxRet + 1) :
        (/\ mode = "hls"
         /\ total_segments > 0
         /\ preserved = {}
         /\ FetchPhaseReturned
         /\ StubHistory(k))
        => /\ max_download_retries = k =>
                /\ download_result = "ok"
                /\ \A i \in Tasks : Done(i) /\ disk[name[i]] > 0
           /\ max_download_retries = k - 1 =>
                /\ download_result = "err_incomplete"
                /\ \A i \in Tasks : ~Done(i)

\* C2: when a wave that is not the last allowed one has ended, the vector
\* dispatched next holds exactly the segments whose attempt failed in it.
C2_FailedTasksRetried ==
    (/\ mode = "hls"
     /\ phase = "loop"
     /\ tries >= 1
     /\ tries < max_download_retries)
    => Range(segments) = failed_in_wave

\* C3: if some task is not Done when the fetch phase returns, the fetch
\* phase returns an error, and the error tells how many are unfinished.
C3_IncompleteIsError ==
    (FetchPhaseReturned /\ \E i \in Tasks : ~Done(i))
    => /\ download_result # "ok"
       /\ ErrorCarriesCount(download_result)

\* C4: the output file exists only in states where every task is Done and
\* every scratch slot holds a complete file.
C4_NoOutputBeforeAllDone ==
    output_exists => \A i \in Tasks : Done(i) /\ disk[name[i]] > 0

\* C5: the number of fetches in flight never exceeds max_parallel_downloads.
C5_ConcurrencyBound == InFlight <= max_parallel_downloads

C5_Witness ==
    /\ max_parallel_downloads >= 2
    /\ InFlight = max_parallel_downloads
    /\ \E i \in Tasks : pc[i] = "spawned"

C7_SkipRule ==
    \A i \in Tasks :
        name[i] \in preserved =>
            /\ fetches[i] = 0
            /\ counted[i] <= 1
            /\ pc[i] \in {"none", "spawned", "finish", "lock_count",
                         "locked", "ok"}
            /\ Done(i) => counted[i] = 1

C7_Witness ==
    /\ result = "ok"
    /\ \E i, j \in Tasks :
         /\ name[i] \in preserved /\ Done(i) /\ counted[i] = 1
         /\ name[j] \notin preserved /\ Done(j) /\ fetches[j] = 1

\* C8: for L > 0 and S > 0 the planned closed ranges are contiguous from
\* byte 0, disjoint, and end at byte L-1; none reaches an index >= L.
C8_RangeCoverage ==
    (plan_pc = "done" /\ video_size > 0 /\ block_size > 0)
    => /\ plan[1].start = 0
       /\ \A k \in 1..Len(plan) : plan[k].start <= plan[k].end
       /\ \A k \in 1..(Len(plan) - 1) : plan[k + 1].start = plan[k].end + 1
       /\ plan[Len(plan)].end = video_size - 1

\* C9: for L > 0 and S > 0 the plan has ceil(L/S) tasks, no range holds
\* more than S bytes, only the last may hold fewer, and L <= S gives one.
C9_RangeCount ==
    (plan_pc = "done" /\ video_size > 0 /\ block_size > 0)
    => /\ Len(plan) = (video_size + block_size - 1) \div block_size
       /\ \A k \in 1..Len(plan) : RangeBytes(plan[k]) <= block_size
       /\ \A k \in 1..(Len(plan) - 1) : RangeBytes(plan[k]) = block_size
       /\ video_size <= block_size => Len(plan) = 1

\* C10: the variant parse_playlist_master returns is one whose bandwidth,
\* as written in the manifest, is the largest written bandwidth.
C10_SelectsMaximum ==
    master_pc = "done"
    => \A k \in 1..Len(lines) :
           Decimal(lines[k]) <= Decimal(lines[selected_stream])

\* C11: when several variants share the largest written bandwidth and one of
\* them is returned, it is the first of them in document order.
C11_TieBreakFirst ==
    (/\ master_pc = "done"
     /\ \A k \in 1..Len(lines) :
            Decimal(lines[k]) <= Decimal(lines[selected_stream]))
    => \A k \in 1..(selected_stream - 1) :
           Decimal(lines[k]) < Decimal(lines[selected_stream])

ProgressBounded ==
    /\ downloaded_segments <= total_segments
    /\ \A k \in 1..Len(progress) :
           /\ progress[k].completed <= total_segments
           /\ k > 1 => progress[k - 1].completed <= progress[k].completed

\* C12: the completed counts of the emitted observations never decrease in
\* emission order and never exceed N; the shared counter never decreases
\* and never exceeds N.
C12_ProgressMonotone ==
    /\ []ProgressBounded
    /\ [][downloaded_segments' >= downloaded_segments]_vars

C12_Witness ==
    /\ total_segments >= 2
    /\ downloaded_segments = total_segments
    /\ Len(progress) = total_segments
    /\ progress[1].label # 1

\* C14: after a job whose reassembly succeeded, neither the scratch
\* directory nor any slot file exists.
C14_ScratchRemovedOnSuccess ==
    result = "ok" => /\ ~folder
                     /\ \A n \in DOMAIN disk : disk[n] = 0

\* Two tasks of the plan write the same slot file.
SharedSlot(n) ==
    \E i, j \in Tasks : i # j /\ name[i] = n /\ name[j] = n

ScratchShrinks ==
    \/ folder /\ ~folder'
    \/ \E n \in DOMAIN disk :
          /\ disk[n] # 0
          /\ \/ disk'[n] = 0
             \/ ~SharedSlot(n) /\ disk'[n] # disk[n]

C17_EmptyPlanFatal ==
    total_segments = 0
    => /\ ~output_exists
       /\ result \in {"none", "err_mkdir", "err_empty_plan"}

\* C18: the error of a single task (returned or panicked) is never the
\* error the job returns to its caller.
C18_TaskErrorsAbsorbed ==
    result \notin {"err_task", "err_join"}

\* C20: a worker that is about to run or runs the progress bookkeeping
\* holds no permit.
C20_ReleaseBeforeBookkeeping ==
    \A i \in Tasks :
        pc[i] \in {"finish", "lock_count", "locked"} => ~permit[i]

Markers(ls) == {i \in 1..Len(ls) : ls[i].kind = "extinf"}

\* The text of a marker reads ':' digits ','.
WellFormedMarker(t) ==
    /\ Len(t) >= 3
    /\ t[1] = Colon
    /\ t[Len(t)] = Comma
    /\ \A k \in 2..(Len(t) - 1) : t[k] >= 0

\* The duration a well-formed marker writes.
WrittenDuration(t) == Decimal(SubSeq(t, 2, Len(t) - 1))

\* Every marker is well formed and is followed by a URI line.
ValidMedia(ls) ==
    \A i \in Markers(ls) :
        /\ WellFormedMarker(ls[i].text)
        /\ i < Len(ls)
        /\ ls[i + 1].kind = "uri"

\* The k-th marker line in manifest order.
MarkerAt(ls, k) ==
    CHOOSE i \in Markers(ls) :
        Cardinality({j \in Markers(ls) : j <= i}) = k

\* C13: parsing a valid media manifest does not abort, and its result has
\* one segment per marker line, in manifest order, the k-th segment carrying
\* the duration written in the k-th marker and the URI (and file name) of
\* the line after it.
C13_MediaPlanning ==
    ValidMedia(media_lines)
    => /\ media_pc # "panic"
       /\ media_pc = "done"
          => /\ Len(media_segments) = Cardinality(Markers(media_lines))
             /\ \A k \in 1..Len(media_segments) :
                  LET m == MarkerAt(media_lines, k) IN
                    /\ media_segments[k].duration =
                           WrittenDuration(media_lines[m].text)
                    /\ media_segments[k].uri.file = media_lines[m + 1].file
                    /\ media_segments[k].uri.base = "own"
                           <=> media_lines[m + 1].abs
                    /\ media_segments[k].name = media_lines[m + 1].file

C13_Witness ==
    /\ media_pc = "done"
    /\ ValidMedia(media_lines)
    /\ Len(media_segments) = 2
    /\ media_segments[1].duration # media_segments[2].duration
    /\ media_segments[1].name # media_segments[2].name

\* A marker without a well-formed duration, or a marker on the last line.
MalformedMedia(ls) ==
    \E i \in Markers(ls) : ~WellFormedMarker(ls[i].text) \/ i = Len(ls)

\* C16: parsing a malformed media manifest ends by returning an error
\* value; it never aborts and never yields a parsed playlist.
C16_MalformedIsParseError ==
    MalformedMedia(media_lines) => media_pc \in {"scan", "error"}

Held == {i \in Tasks : permit[i]}

\* Every handle of the current wave has been awaited, or the fetch phase
\* is over.
WaveFinished ==
    \/ phase = "await" /\ awaited = Len(tasks)
    \/ phase \in {"loop", "fetched", "merge"}

\* C21: the permits available plus the permits held are C in every state,
\* only a worker between its acquire and its return holds one, and all C
\* permits are available when a wave has finished.
C21_PermitConservation ==
    mode # "none"
    => /\ semaphore >= 0
       /\ semaphore + Cardinality(Held) = max_parallel_downloads
       /\ \A i \in Held :
              pc[i] \in {"fetching", "finish", "lock_count", "locked"}
       /\ WaveFinished => semaphore = max_parallel_downloads

C21_Witness ==
    /\ phase = "await"
    /\ awaited = Len(tasks)
    /\ semaphore = max_parallel_downloads
    /\ max_parallel_downloads >= 1
    /\ \E i, j, k \in Tasks :
         /\ fetch_errors[i] > 0
         /\ io_errors[j] > 0
         /\ Done(k) /\ fetches[k] > 0

\* C22: the k-th observation emitted by a job reports completed = k.
C22_SnapshotsConsistent ==
    \A k \in 1..Len(progress) : progress[k].completed = k

C22_Witness ==
    /\ Len(progress) >= 1
    /\ \E i, j \in Tasks :
         /\ pc[i] = "locked"
         /\ pc[j] \in {"finish", "lock_count"}
         /\ progress[1].label > i

Failed(i) == pc[i] \in {"err", "panic"}

\* C23: before reassembly the slot file of a Done task exists, and a task
\* whose attempt failed has left no file in its slot (slots that two tasks
\* share are left aside).
C23_ScratchIffDone ==
    phase \notin {"merge", "done"}
    => \A i \in Tasks :
           /\ Done(i) => disk[name[i]] # 0
           /\ (Failed(i) /\ ~SharedSlot(name[i])) => disk[name[i]] = 0

AttemptsBounded ==
    mode = "hls"
    => /\ tries <= max_download_retries
       /\ \A i \in Tasks : fetches[i] <= max_download_retries

\* C24: download_segments runs at most R waves and fetches no task more
\* than R times, and a task that is Done is not spawned or fetched again.
C24_RetryCeilingBound ==
    /\ []AttemptsBounded
    /\ [][mode = "hls"
          => \A i \in Tasks :
                 Done(i) => pc'[i] = "ok" /\ fetches'[i] = fetches[i]]_vars

C24_Witness ==
    /\ mode = "hls"
    /\ phase = "fetched"
    /\ tries = max_download_retries
    /\ \E i, j \in Tasks :
         /\ Done(i) /\ fetches[i] = 1
         /\ Failed(j)

\* A worker that was spawned and has not returned.
Live(i) == pc[i] \in {"spawned", "fetching", "finish", "lock_count", "locked"}

NoDuplicate(seq) ==
    \A a, b \in 1..Len(seq) : a # b => seq[a] # seq[b]

\* C25: in download_segments no worker is alive outside a wave, so every
\* worker of a wave has returned before the loop spawns again, and no task
\* occurs twice in a dispatch vector.
C25_WaveBarrier ==
    mode = "hls"
    => /\ phase # "await" => \A i \in Tasks : ~Live(i)
       /\ NoDuplicate(tasks)
       /\ NoDuplicate(segments)

C25_Witness ==
    /\ mode = "hls"
    /\ phase = "loop"
    /\ tries = 1
    /\ Len(tasks) >= 2
    /\ Len(progress) >= 2
    /\ progress[1].label > progress[2].label

\* C27: no two tasks fetch into the same slot at the same time, and a task
\* is Done without a fetch only when its slot was preserved from an earlier
\* run.
C27_DistinctSlots ==
    /\ \A i, j \in Tasks :
           (i # j /\ pc[i] = "fetching" /\ pc[j] = "fetching")
           => name[i] # name[j]
    /\ \A i \in Tasks :
           (Done(i) /\ fetches[i] = 0) => name[i] \in preserved

\* C28: a job that ended in an error has left no file at the output path
\* (stated for the jobs in which every task reached Done, so that the
\* failure is one of reassembly).
C28_FailedJobNoOutput ==
    (result \notin {"none", "ok"} /\ \A i \in Tasks : Done(i))
    => ~output_exists

\* C30: when download_segments has returned, every task has been fetched at
\* least once or finds its slot file on disk.
C30_EveryTaskAttempted ==
    (mode = "hls" /\ download_result # "none")
    => \A i \in Tasks : fetches[i] >= 1 \/ disk[name[i]] # 0

\* C26: every permit a worker holds is eventually released, also when the
\* remote side of its fetch never answers.
C26_StuckFetchReleases ==
    \A i \in 1..MaxSeg :
        (i \in Tasks /\ permit[i]) ~> (i \in Tasks /\ ~permit[i])

\* C29: if every issued fetch returns, the fetch phase returns: the job
\* reaches the result of download_segments / SegmentedVideo::download or
\* fails before it.
C29_FetchPhaseTerminates ==
    <>(FetchPhaseReturned \/ result # "none")

\* C31: when SegmentedVideo::download has returned, with success or with the
\* first task error, no worker of that job is still in flight, holds a
\* permit or is about to write its scratch file.
C31_NoWorkerOutlivesJob ==
    (mode = "range" /\ download_result # "none")
    => \A i \in Tasks : ~Live(i) /\ ~permit[i]

\* Iterations of the while loop of SegmentedVideo::new taken so far: one
\* per segment pushed inside the loop.
LoopIterations == IF plan_pc = "done" THEN Len(plan) - 1 ELSE Len(plan)

\* C32: range planning terminates for every chunk size, block_size = 0
\* included, and every total length: each iteration of the loop strictly
\* advances end, the loop takes at most video_size iterations, and the plan
\* is completed.
C32_PlanningTerminates ==
    /\ [][(plan_pc = "loop" /\ plan_pc' = "loop") => end' > end]_vars
    /\ [](LoopIterations <= video_size)
    /\ <>(plan_pc = "done")

C32_Witness ==
    /\ plan_pc = "done"
    /\ block_size = 0
    /\ video_size >= 2
    /\ LoopIterations = video_size

\* URL of the manifest handed to parse_playlist_segments.
ManifestUrl == IF document = "master" THEN stream_url ELSE playlist_url

\* Directory a parsed segment's relative URI was joined to.
resolved_against(uri) == IF uri.base = "prefix" THEN prefix ELSE <<>>

\* C33: when the fetched document is a master and the selected variant's
\* media manifest comes from another directory, every relative segment URI
\* of that media manifest is resolved against the directory of the media
\* manifest's own URL.
C33_ResolvedAgainstOwnManifest ==
    (document = "master" /\ playlist_pc = "segments"
        /\ stream_url # playlist_url)
    => \A k \in 1..Len(media_segments) :
           (media_segments[k].uri.base = "prefix"
               /\ media_segments[k].uri.file # 0)
           => resolved_against(media_segments[k].uri) = ManifestUrl

\* Worker i is blocked in Mutex::lock().await on a mutex that j holds.
WaitsFor(i, j) ==
    \/ /\ pc[i] = "finish" /\ mode \in {"hls", "legacy"} /\ downloaded[i]
       /\ duration_lock = j
    \/ /\ pc[i] = "lock_count" \/ (pc[i] = "finish" /\ mode = "range")
       /\ count_lock = j

\* Worker i is inside the critical section of Segment::finished.
InFinished(i) == pc[i] \in {"lock_count", "locked"}

\* C34: the progress mutexes cannot deadlock: a worker of an HLS job holds
\* the count lock only while it holds the duration lock, a worker outside
\* Segment::finished holds neither, and no two workers wait for a lock the
\* other holds.
C34_NoLockDeadlock ==
    /\ \A i \in Tasks :
           (mode \in {"hls", "legacy"} /\ count_lock = i) => duration_lock = i
    /\ \A i \in 1..MaxSeg :
           (i \notin Tasks \/ ~InFinished(i))
           => duration_lock # i /\ count_lock # i
    /\ \A i, j \in Tasks : i # j => ~(WaitsFor(i, j) /\ WaitsFor(j, i))

\* Contention: one worker holds both locks while another waits for the
\* duration lock and a third has already left Segment::finished.
C34_Witness ==
    /\ mode = "hls"
    /\ \E i, j, k \in Tasks :
           /\ pc[i] = "locked" /\ duration_lock = i /\ count_lock = i
           /\ WaitsFor(j, i)
           /\ pc[k] = "ok" /\ counted[k] >= 1

====
